---- MODULE Spec2Model ----
(***************************************************************************)
(* KGQueryReflexionAgent (biochatter/kg_langgraph_agent.py): the reflexion *)
(* loop over a graph database, its tool executor and its empty-result     *)
(* rule.                                                                    *)
(*                                                                          *)
(* Python values are tagged records [t, v]: None is [t |-> "none"], a str  *)
(* is [t |-> "str"], a number is [t |-> "num"].  JSON text is modelled by  *)
(* its syntax tree: the literal null, a quoted string, a number, and the   *)
(* object {"query": ..., "result": [...]}; the empty text "" is no JSON.   *)
(***************************************************************************)
EXTENDS Integers, Sequences, FiniteSets, TLC

VARIABLES
    state,          \* List[BaseMessage]: the conversation state of one run
    pc,             \* the node of the graph the run is at
    max_steps,      \* self.max_steps, the step budget
    neodriver,      \* self.neodriver: "None" or the driver handle
    llm_calls,      \* number of generate/revise responder invocations so far
    results,        \* the local list `results` of the last _tool_function call
    dblog,          \* one record per _query_graph_database call of the last _tool_function call
    logged,         \* the logger.error calls of the last _tool_function call
    num_out,        \* outcome of the last _get_last_tool_results_num / _should_continue
    final_result,   \* value returned by _parse_final_result, "unset" before
    schema,         \* the schema configuration read by BioCypherPrompt.__init__
    builder,        \* the attributes of one BioCypherPrompt instance
    last_call       \* the last call made on the builder, with its outcome

vars == <<state, pc, max_steps, neodriver, llm_calls, results, dblog, logged,
          num_out, final_result, schema, builder, last_call>>

\* the variables of the agent and those of the prompt builder
agentVars == <<state, max_steps, neodriver, llm_calls, results, dblog, logged,
               num_out, final_result>>
promptVars == <<schema, builder, last_call>>

\* no prompt builder exists in a run of the agent
NoPrompt ==
    /\ schema = <<>>
    /\ builder = [built |-> FALSE]
    /\ last_call = [n |-> 0, entity_calls |-> 0, op |-> "none"]

-----------------------------------------------------------------------------
(* Bounds *)

\* largest step budget explored
MaxSteps == 3
\* most rows in a result set given to _get_last_tool_results_num
MaxRows == 2
\* most calls made on one prompt builder
MaxCalls == 2

-----------------------------------------------------------------------------
(* Constants of the graph *)

END_NODE == "__end__"
EXECUTE_TOOL_NODE == "execute_tools"

SEARCH_QUERIES == "search_queries"
SEARCH_QUERIES_DESCRIPTION == "query for genomicKB graph database"
REVISED_QUERY == "revised_query"
REVISED_QUERY_DESCRIPTION == "Revised query"

-----------------------------------------------------------------------------
(* Python values and JSON text *)

PyNone == [t |-> "none", v |-> ""]
PyStr(s) == [t |-> "str", v |-> s]
PyNum(n) == [t |-> "num", v |-> n]

\* field values the database may return: null, strings, numbers
FieldValues == {PyNone, PyStr("None"), PyStr("null"), PyStr("TP53"), PyNum("7")}

\* json.dumps of one scalar
DumpsScalar(x) ==
    CASE x.t = "none" -> [j |-> "null", v |-> "null"]
      [] x.t = "str"  -> [j |-> "string", v |-> x.v]
      [] x.t = "num"  -> [j |-> "number", v |-> x.v]

\* json.loads of one scalar
LoadsScalar(y) ==
    CASE y.j = "null"   -> PyNone
      [] y.j = "string" -> PyStr(y.v)
      [] y.j = "number" -> PyNum(y.v)

DumpsRow(row) == [k \in DOMAIN row |-> DumpsScalar(row[k])]
LoadsRow(jrow) == [k \in DOMAIN jrow |-> LoadsScalar(jrow[k])]

\* json.dumps({"query": query, "result": rows})
Dumps(res) ==
    [text   |-> "object",
     query  |-> [j |-> "string", v |-> res.query],
     result |-> [i \in 1..Len(res.result) |-> DumpsRow(res.result[i])]]

\* the content "" of a tool message without any result
EmptyText == [text |-> "empty"]

\* json.loads(content): raises JSONDecodeError on the empty text
Loads(content) ==
    IF content.text = "empty"
    THEN [raised |-> TRUE]
    ELSE [raised |-> FALSE,
          query  |-> content.query.v,
          result |-> [i \in 1..Len(content.result) |-> LoadsRow(content.result[i])]]

-----------------------------------------------------------------------------
(* Messages *)

HumanMessage == [type |-> "human"]
AIMessage(calls) == [type |-> "ai", tool_calls |-> calls]
ToolMessage(content, id) == [type |-> "tool", content |-> content, tool_call_id |-> id]

isToolMessage(m) == m.type = "tool"

\* indexes of the tool messages of a state
ToolIndexes(st) == {i \in 1..Len(st) : isToolMessage(st[i])}

\* the first ToolMessage met when walking state[::-1]
LastToolIndex(st) == CHOOSE i \in ToolIndexes(st) : \A j \in ToolIndexes(st) : j <= i

-----------------------------------------------------------------------------
(* _get_last_tool_results_num *)

\* the body of `for k in res.keys()`: the row leaves `empty` True
RowLeavesEmpty(row) ==
    \A k \in DOMAIN row :
        \/ row[k].t = "none"
        \/ (row[k].t = "str" /\ (row[k].v = "None" \/ row[k].v = "null"))

\* a mutant: the string "null" is not skipped
GetLastToolResultsNum_noNullString(st) ==
    IF ToolIndexes(st) = {}
    THEN [raised |-> FALSE, value |-> 0]
    ELSE LET loaded == Loads(st[LastToolIndex(st)].content)
         IN  IF loaded.raised
             THEN [raised |-> TRUE, value |-> 0]
             ELSE LET rows  == loaded.result
                      empty == \A i \in 1..Len(rows) : \A k \in DOMAIN rows[i] :
                                   \/ rows[i][k].t = "none"
                                   \/ (rows[i][k].t = "str" /\ rows[i][k].v = "None")
                  IN  [raised |-> FALSE,
                       value  |-> IF ~empty THEN Len(rows) ELSE 0]

\* a mutant: only the rows that are not empty are counted
GetLastToolResultsNum_countsFullRows(st) ==
    IF ToolIndexes(st) = {}
    THEN [raised |-> FALSE, value |-> 0]
    ELSE LET loaded == Loads(st[LastToolIndex(st)].content)
         IN  IF loaded.raised
             THEN [raised |-> TRUE, value |-> 0]
             ELSE LET rows == loaded.result
                  IN  [raised |-> FALSE,
                       value  |-> Cardinality({i \in 1..Len(rows) : ~RowLeavesEmpty(rows[i])})]

\* KGQueryReflexionAgent._get_last_tool_results_num(state): the outcome is
\* a raised JSONDecodeError or the returned number
GetLastToolResultsNum(st) ==
    IF ToolIndexes(st) = {}
    THEN [raised |-> FALSE, value |-> 0]
    ELSE LET loaded == Loads(st[LastToolIndex(st)].content)
         IN  IF loaded.raised
             THEN [raised |-> TRUE, value |-> 0]
             ELSE LET rows  == loaded.result
                      empty == \A i \in 1..Len(rows) : RowLeavesEmpty(rows[i])
                  IN  [raised |-> FALSE,
                       value  |-> IF ~empty THEN Len(rows) ELSE 0]

-----------------------------------------------------------------------------
(* The empty-result rule applied to result sets of the database *)

FieldNames == {"name", "id"}

\* the rows of a result set: mappings from some field names to values
Rows == UNION {[ks -> FieldValues] : ks \in SUBSET FieldNames}

RECURSIVE SeqsUpTo(_, _)
SeqsUpTo(S, n) ==
    IF n = 0 THEN {<<>>}
    ELSE LET shorter == SeqsUpTo(S, n - 1)
         IN  shorter \cup {Append(s, x) : s \in {t \in shorter : Len(t) = n - 1}, x \in S}

ResultSets == SeqsUpTo(Rows, MaxRows)

NoOutcome == [raised |-> FALSE, value |-> -1]

\* a conversation whose last tool message holds one result set
InitNum ==
    /\ \E rows \in ResultSets, q \in {"q1"} :
          /\ results = <<[query |-> q, result |-> rows]>>
          /\ state = <<HumanMessage, ToolMessage(Dumps([query |-> q, result |-> rows]), "c1")>>
    /\ pc = "count"
    /\ max_steps = 1
    /\ neodriver = "None"
    /\ llm_calls = 0
    /\ dblog = <<>>
    /\ logged = <<>>
    /\ num_out = NoOutcome
    /\ final_result = "unset"
    /\ NoPrompt

\* one call of _get_last_tool_results_num(state)
CountResults ==
    /\ pc = "count"
    /\ num_out' = GetLastToolResultsNum(state)
    /\ pc' = "counted"
    /\ UNCHANGED <<state, max_steps, neodriver, llm_calls, results, dblog, logged, final_result>>
    /\ UNCHANGED promptVars

NextNum == CountResults

SpecNum == InitNum /\ [][NextNum]_vars

\* the values the empty-result rule calls null-like
NullLike == {PyNone, PyStr("None"), PyStr("null")}

\* the result set handed to the call
GivenRows == results[1].result

\* C6: for every result set in which every field of every row is null, "None"
\* or "null" (the result set without rows included), _get_last_tool_results_num
\* returns 0.
C6_AllNullLikeCountsZero ==
    (pc = "counted" /\ \A i \in 1..Len(GivenRows) : \A k \in DOMAIN GivenRows[i] :
                            GivenRows[i][k] \in NullLike)
        => (~num_out.raised /\ num_out.value = 0)

C6_Witness ==
    /\ pc = "counted"
    /\ Len(GivenRows) = 2
    /\ DOMAIN GivenRows[1] = FieldNames
    /\ GivenRows[1]["name"] = PyStr("null")
    /\ GivenRows[1]["id"] = PyNone
    /\ DOMAIN GivenRows[2] = {"name"}
    /\ GivenRows[2]["name"] = PyStr("None")
    /\ num_out.value = 0

\* C7 as stated: for every result set with at least one row holding a value
\* that is not null and not "None", the returned number is the row count.
C7_Original ==
    (pc = "counted" /\ \E i \in 1..Len(GivenRows) : \E k \in DOMAIN GivenRows[i] :
                            GivenRows[i][k] \notin {PyNone, PyStr("None")})
        => (~num_out.raised /\ num_out.value = Len(GivenRows))

\* C7 amended: for every result set with at least one row holding a value
\* that is not null, not "None" and not "null", the returned number is the
\* number of rows of the result set, the empty rows included.
C7_NonEmptyCountsAllRows ==
    (pc = "counted" /\ \E i \in 1..Len(GivenRows) : \E k \in DOMAIN GivenRows[i] :
                            GivenRows[i][k] \notin NullLike)
        => (~num_out.raised /\ num_out.value = Len(GivenRows))

C7_Witness ==
    /\ pc = "counted"
    /\ Len(GivenRows) = 2
    /\ DOMAIN GivenRows[1] = {"name"}
    /\ GivenRows[1]["name"] = PyNone
    /\ DOMAIN GivenRows[2] = FieldNames
    /\ GivenRows[2]["name"] = PyStr("null")
    /\ GivenRows[2]["id"] = PyStr("TP53")
    /\ num_out.value = 2

-----------------------------------------------------------------------------
(* The database behind neo4j_utils *)

\* what the database returns in a run of the loop: no rows, a row of nulls,
\* a row with a value
RowNull == [name |-> PyNone]
RowFull == [name |-> PyStr("TP53")]
LoopResultSets == {<<>>, <<RowNull>>, <<RowFull>>}

\* what the database does at one query: `up` tells whether nu.Driver(...)
\* would succeed; neodriver.query(query) raises, or returns the tuple
\* (rows, summary)
DriverOutcomes ==
    {[up |-> u, raises |-> TRUE, data |-> <<>>] : u \in BOOLEAN}
        \cup {[up |-> u, raises |-> FALSE, data |-> rs] : u \in BOOLEAN, rs \in LoopResultSets}

\* a mutant: the early return on a held handle is missing
ConnectDb_alwaysConnects(handle, up) ==
    IF up
    THEN [neodriver |-> "driver", attempted |-> TRUE, logged |-> <<>>]
    ELSE [neodriver |-> handle, attempted |-> TRUE, logged |-> <<"connect">>]

\* KGQueryReflexionAgent._connect_db; `up` tells whether nu.Driver(...) succeeds
ConnectDb(handle, up) ==
    IF handle # "None"
    THEN [neodriver |-> handle, attempted |-> FALSE, logged |-> <<>>]
    ELSE IF up
         THEN [neodriver |-> "driver", attempted |-> TRUE, logged |-> <<>>]
         ELSE [neodriver |-> "None", attempted |-> TRUE, logged |-> <<"connect">>]

\* a mutant: the try/except around neodriver.query is missing
QueryGraphDatabase_noTry(handle, outcome, query) ==
    LET c == ConnectDb(handle, outcome.up)
        failing == c.neodriver = "None" \/ outcome.raises
        ret == IF failing THEN [kind |-> "exception", data |-> <<>>]
               ELSE [kind |-> "tuple", data |-> outcome.data]
    IN  [neodriver |-> c.neodriver,
         event |-> [query |-> query, held_before |-> handle, attempted |-> c.attempted,
                    held_after |-> c.neodriver,
                    driver_raised |-> (c.neodriver # "None" /\ outcome.raises),
                    returned |-> ret],
         logged |-> c.logged,
         ret |-> ret]

\* KGQueryReflexionAgent._query_graph_database: the returned value is the
\* driver's tuple (kind "tuple") or the empty list (kind "list"); a value of
\* kind "exception" stands for an exception leaving the method.  With no
\* handle, self.neodriver.query raises AttributeError inside the try.
QueryGraphDatabase(handle, outcome, query) ==
    LET c == ConnectDb(handle, outcome.up)
        failing == c.neodriver = "None" \/ outcome.raises
        ret == IF failing THEN [kind |-> "list", data |-> <<>>]
               ELSE [kind |-> "tuple", data |-> outcome.data]
    IN  [neodriver |-> c.neodriver,
         event |-> [query |-> query, held_before |-> handle, attempted |-> c.attempted,
                    held_after |-> c.neodriver,
                    driver_raised |-> (c.neodriver # "None" /\ outcome.raises),
                    returned |-> ret],
         logged |-> IF failing THEN c.logged \o <<"query">> ELSE c.logged,
         ret |-> ret]

-----------------------------------------------------------------------------
(* _tool_function *)

\* lines 143-147 and 153-157: one query and the append of its pair; result[0]
\* raises IndexError on the empty list
RunQuery(acc, query, outcomes) ==
    LET r == QueryGraphDatabase(acc.neodriver, outcomes[acc.n + 1], query)
    IN  [neodriver |-> r.neodriver,
         dblog     |-> Append(acc.dblog, r.event),
         logged    |-> acc.logged \o r.logged,
         n         |-> acc.n + 1,
         results   |-> IF r.ret.kind = "tuple"
                       THEN Append(acc.results, [query |-> query, result |-> r.ret.data])
                       ELSE acc.results,
         failed    |-> r.ret.kind # "tuple"]

\* the loop `for query in queries` from its i-th entry on
RECURSIVE RunQueries(_, _, _, _)
RunQueries(acc, queries, i, outcomes) ==
    IF i > Len(queries) \/ acc.failed
    THEN acc
    ELSE RunQueries(RunQuery(acc, queries[i], outcomes), queries, i + 1, outcomes)

NoQuery == "no query"

\* the body of `for parsed_message in parsed_tool_messages`, try and except
ProcessCall(acc0, call, outcomes) ==
    LET acc   == [acc0 EXCEPT !.failed = FALSE]
        args  == call.args
        query == IF REVISED_QUERY \in DOMAIN args THEN args[REVISED_QUERY]
                 ELSE IF REVISED_QUERY_DESCRIPTION \in DOMAIN args
                      THEN args[REVISED_QUERY_DESCRIPTION]
                      ELSE NoQuery
        done  == IF query # NoQuery
                 THEN RunQuery(acc, query, outcomes)
                 ELSE IF SEARCH_QUERIES \in DOMAIN args
                      THEN RunQueries(acc, args[SEARCH_QUERIES], 1, outcomes)
                      ELSE IF SEARCH_QUERIES_DESCRIPTION \in DOMAIN args
                           THEN RunQueries(acc, args[SEARCH_QUERIES_DESCRIPTION], 1, outcomes)
                           ELSE [acc EXCEPT !.failed = TRUE]
    IN  IF done.failed
        THEN [done EXCEPT !.logged = done.logged \o <<"tool">>]
        ELSE done

RECURSIVE ProcessCalls(_, _, _, _)
ProcessCalls(acc, calls, i, outcomes) ==
    IF i > Len(calls)
    THEN acc
    ELSE ProcessCalls(ProcessCall(acc, calls[i], outcomes), calls, i + 1, outcomes)

MaxOf(S) == CHOOSE x \in S : \A y \in S : y <= x
MinOf(S) == CHOOSE x \in S : \A y \in S : x <= y

\* the indexes of the pairs whose result is a non-empty list
NonEmptyPairs(res) == {i \in 1..Len(res) : Len(res[i].result) > 0}

\* a mutant: the first pair is kept whatever the others hold
ToolContent_firstOnly(res) ==
    IF Len(res) > 0 THEN Dumps(res[1]) ELSE EmptyText

\* lines 161-169: the content of the tool message
ToolContent(res) ==
    IF Len(res) > 1 /\ NonEmptyPairs(res) # {}
    THEN Dumps(res[MaxOf(NonEmptyPairs(res))])
    ELSE IF Len(res) > 0 THEN Dumps(res[1]) ELSE EmptyText

\* KGQueryReflexionAgent._tool_function(state) with the handle held at the
\* call and what the database does at each submitted query
ToolFunction(st, handle, outcomes) ==
    LET calls == st[Len(st)].tool_calls
        acc0  == [neodriver |-> handle, dblog |-> <<>>, logged |-> <<>>, n |-> 0,
                  results |-> <<>>, failed |-> FALSE]
        acc   == ProcessCalls(acc0, calls, 1, outcomes)
    IN  [message   |-> ToolMessage(ToolContent(acc.results), calls[Len(calls)].id),
         neodriver |-> acc.neodriver,
         results   |-> acc.results,
         dblog     |-> acc.dblog,
         logged    |-> acc.logged]

-----------------------------------------------------------------------------
(* _should_continue and _parse_final_result *)

\* ReflexionAgent._get_num_iterations: the generate/revise outputs of the state
NumIterations(st) == Cardinality({i \in 1..Len(st) : st[i].type = "ai"})

\* ReflexionAgent._should_continue, the base check: END_NODE once the step
\* budget is used up
BaseShouldContinue(st, budget) ==
    IF NumIterations(st) >= budget THEN END_NODE ELSE EXECUTE_TOOL_NODE

\* a mutant: the result of the base check is not looked at
ShouldContinue_ignoresBudget(st, budget) ==
    LET num == GetLastToolResultsNum(st)
    IN  [raised |-> num.raised, num |-> num,
         node |-> IF num.value > 0 THEN END_NODE ELSE EXECUTE_TOOL_NODE]

\* a mutant: one row is not enough to end the loop
ShouldContinue_needsTwoRows(st, budget) ==
    IF BaseShouldContinue(st, budget) = END_NODE
    THEN [raised |-> FALSE, num |-> NoOutcome, node |-> END_NODE]
    ELSE LET num == GetLastToolResultsNum(st)
         IN  [raised |-> num.raised, num |-> num,
              node |-> IF num.value > 1 THEN END_NODE ELSE EXECUTE_TOOL_NODE]

\* KGQueryReflexionAgent._should_continue(state): the returned node, or the
\* exception raised by _get_last_tool_results_num
ShouldContinue(st, budget) ==
    IF BaseShouldContinue(st, budget) = END_NODE
    THEN [raised |-> FALSE, num |-> NoOutcome, node |-> END_NODE]
    ELSE LET num == GetLastToolResultsNum(st)
         IN  [raised |-> num.raised, num |-> num,
              node |-> IF num.value > 0 THEN END_NODE ELSE EXECUTE_TOOL_NODE]

\* a mutant: the answer of the last tool call is returned
ParseFinalResult_lastCall(output) ==
    output.tool_calls[Len(output.tool_calls)].args["answer"]

\* KGQueryReflexionAgent._parse_final_result(output)
ParseFinalResult(output) == output.tool_calls[1].args["answer"]

-----------------------------------------------------------------------------
(* The outputs of the LLM *)

ArgsOne == ("answer" :> "a1") @@ (SEARCH_QUERIES :> <<"q1">>)
ArgsTwo == ("answer" :> "a2") @@ (SEARCH_QUERIES :> <<"q1", "q2">>)
ArgsByDescription == ("answer" :> "a1") @@ (SEARCH_QUERIES_DESCRIPTION :> <<"q2">>)
ArgsNoQueries == ("answer" :> "a2")
ArgsRevised == ("answer" :> "a2") @@ (SEARCH_QUERIES :> <<"q1">>) @@ (REVISED_QUERY :> "q2")
ArgsRevisedByDescription ==
    ("answer" :> "a1") @@ (SEARCH_QUERIES :> <<"q1", "q2">>) @@ (REVISED_QUERY_DESCRIPTION :> "q1")

\* the tool calls of an output: the parser gives each its id
ToolCalls(argsList) == [i \in 1..Len(argsList) |-> [id |-> i, args |-> argsList[i]]]

\* outputs of the initial responder (tool GenerateQuery)
DraftProposals ==
    {ToolCalls(<<ArgsOne>>), ToolCalls(<<ArgsTwo>>), ToolCalls(<<ArgsByDescription>>),
     ToolCalls(<<ArgsNoQueries>>), ToolCalls(<<ArgsOne, ArgsTwo>>)}

\* outputs of the revise responder (tool ReviseQuery)
ReviseProposals ==
    {ToolCalls(<<ArgsRevised>>), ToolCalls(<<ArgsRevisedByDescription>>),
     ToolCalls(<<ArgsTwo>>), ToolCalls(<<ArgsNoQueries>>), ToolCalls(<<ArgsRevised, ArgsOne>>)}

\* the candidate queries of one tool call: its search queries, under either key
CandidateQueries(args) ==
    IF SEARCH_QUERIES \in DOMAIN args THEN args[SEARCH_QUERIES]
    ELSE IF SEARCH_QUERIES_DESCRIPTION \in DOMAIN args THEN args[SEARCH_QUERIES_DESCRIPTION]
    ELSE <<>>

RECURSIVE AllCandidateQueries(_, _)
AllCandidateQueries(calls, i) ==
    IF i > Len(calls) THEN <<>>
    ELSE CandidateQueries(calls[i].args) \o AllCandidateQueries(calls, i + 1)

-----------------------------------------------------------------------------
(* One run of the loop *)

Init ==
    /\ state = <<HumanMessage>>
    /\ pc = "draft"
    /\ max_steps \in 1..MaxSteps
    /\ neodriver = "None"
    /\ llm_calls = 0
    /\ results = <<>>
    /\ dblog = <<>>
    /\ logged = <<>>
    /\ num_out = NoOutcome
    /\ final_result = "unset"
    /\ NoPrompt

\* transition "generate": the initial responder answers
Draft ==
    /\ pc = "draft"
    /\ \E p \in DraftProposals : state' = Append(state, AIMessage(p))
    /\ llm_calls' = llm_calls + 1
    /\ pc' = "execute"
    /\ UNCHANGED <<max_steps, neodriver, results, dblog, logged, num_out, final_result>>
    /\ UNCHANGED promptVars

\* transition "execute": _tool_function on the state
ExecuteTools ==
    /\ pc = "execute"
    /\ \E outcomes \in [1..Len(AllCandidateQueries(state[Len(state)].tool_calls, 1)) -> DriverOutcomes] :
          LET r == ToolFunction(state, neodriver, outcomes)
          IN  /\ state' = Append(state, r.message)
              /\ neodriver' = r.neodriver
              /\ results' = r.results
              /\ dblog' = r.dblog
              /\ logged' = r.logged
    /\ pc' = "evaluate"
    /\ UNCHANGED <<max_steps, llm_calls, num_out, final_result>>
    /\ UNCHANGED promptVars

\* transition "evaluate": _should_continue on the state; on END_NODE the
\* answer of the last output is returned
Evaluate ==
    /\ pc = "evaluate"
    /\ LET sc == ShouldContinue(state, max_steps)
           output == state[Len(state) - 1]
       IN  /\ num_out' = sc.num
           /\ IF sc.raised
              THEN pc' = "raised" /\ final_result' = final_result
              ELSE IF sc.node = END_NODE
                   THEN pc' = "done" /\ final_result' = ParseFinalResult(output)
                   ELSE pc' = "revise" /\ final_result' = final_result
    /\ UNCHANGED <<state, max_steps, neodriver, llm_calls, results, dblog, logged>>
    /\ UNCHANGED promptVars

\* transition "revise": the revise responder answers
Revise ==
    /\ pc = "revise"
    /\ llm_calls <= MaxSteps
    /\ \E p \in ReviseProposals : state' = Append(state, AIMessage(p))
    /\ llm_calls' = llm_calls + 1
    /\ pc' = "execute"
    /\ UNCHANGED <<max_steps, neodriver, results, dblog, logged, num_out, final_result>>
    /\ UNCHANGED promptVars

Next == Draft \/ ExecuteTools \/ Evaluate \/ Revise

Spec == Init /\ [][Next]_vars

-----------------------------------------------------------------------------
(* The claims about the loop *)

\* the last message of the state and the last output of the LLM before it
LastMessage == state[Len(state)]
LastOutput == state[MaxOf({i \in 1..Len(state) : state[i].type = "ai"})]

\* the null-like rule of the specification, applied to the text of a tool
\* message: some row holds a field that is not null, "None" or "null"
JudgedNonEmpty(content) ==
    /\ content.text = "object"
    /\ \E i \in 1..Len(content.result) : \E k \in DOMAIN content.result[i] :
           LoadsScalar(content.result[i][k]) \notin NullLike

BudgetExhausted == llm_calls >= max_steps

\* C1 as stated: _should_continue returns END_NODE exactly when the step
\* budget is exhausted or the most recent tool message holds a result judged
\* non-empty by the null-like rule, and returns EXECUTE_TOOL_NODE in every
\* other state.
C1_Original ==
    pc = "evaluate" =>
        LET sc == ShouldContinue(state, max_steps)
        IN  /\ ~sc.raised
            /\ sc.node = (IF BudgetExhausted \/ JudgedNonEmpty(LastMessage.content)
                          THEN END_NODE ELSE EXECUTE_TOOL_NODE)

FirstWithRows(res) ==
    IF NonEmptyPairs(res) = {} THEN res[1] ELSE res[MinOf(NonEmptyPairs(res))]
FirstJudgedNonEmpty(res) ==
    LET full == {i \in 1..Len(res) : JudgedNonEmpty(Dumps(res[i]))}
    IN  IF full = {} THEN res[1] ELSE res[MinOf(full)]

\* C4 as stated: when more than one query was executed, the content of the
\* tool message is the serialized first pair whose result is non-empty, or
\* the first pair when no result is non-empty.
C4_Original ==
    (pc = "evaluate" /\ Len(results) > 1)
        => LastMessage.content \in {Dumps(FirstWithRows(results)),
                                    Dumps(FirstJudgedNonEmpty(results))}

\* C5 as stated, for a turn in which an exception occurred and no query gave
\* a result: the tool message evaluates to 0 and _should_continue returns
\* EXECUTE_TOOL_NODE while the budget remains, no exception propagating.
C5_Original ==
    (pc = "evaluate" /\ logged # <<>> /\ results = <<>>)
        => /\ isToolMessage(LastMessage)
           /\ GetLastToolResultsNum(state) = [raised |-> FALSE, value |-> 0]
           /\ ~ShouldContinue(state, max_steps).raised
           /\ (~BudgetExhausted => ShouldContinue(state, max_steps).node = EXECUTE_TOOL_NODE)

\* C8: when the loop stops, the returned final result is the 'answer' field
\* of the first tool call of the last LLM output, on a non-empty result as on
\* budget exhaustion.
C8_FinalResultIsFirstAnswer ==
    pc = "done" => final_result = LastOutput.tool_calls[1].args["answer"]

\* the budget ran out on a revised proposal of two tool calls with different
\* answers
C8_Witness ==
    /\ pc = "done"
    /\ llm_calls > 1
    /\ BudgetExhausted
    /\ ~JudgedNonEmpty(LastMessage.content)
    /\ Len(LastOutput.tool_calls) = 2
    /\ final_result = "a2"

\* the queries handed to _query_graph_database by the last _tool_function call
Submitted == [i \in 1..Len(dblog) |-> dblog[i].query]

\* C9 as stated: every candidate query of every tool call of the last LLM
\* message is submitted exactly once, in order, and the result list holds one
\* pair per candidate query.
C9_Original ==
    pc = "evaluate" =>
        LET candidates == AllCandidateQueries(LastOutput.tool_calls, 1)
        IN  /\ Submitted = candidates
            /\ [i \in 1..Len(results) |-> results[i].query] = candidates

\* what the handle allows at each query of one _tool_function call
ConnectsOnlyWithoutHandle ==
    /\ \A i \in 1..Len(dblog) :
          /\ dblog[i].attempted <=> dblog[i].held_before = "None"
          /\ dblog[i].held_before # "None" => dblog[i].held_after = dblog[i].held_before
    /\ \A i \in 1..(Len(dblog) - 1) : dblog[i + 1].held_before = dblog[i].held_after
    /\ (ToolIndexes(state) = {} => (neodriver = "None" /\ dblog = <<>>))

\* C10: a connection attempt is made only while no handle is held: none at
\* construction, one on the first query, none after the first successful
\* attempt, whose handle every later query reuses; after a failed attempt the
\* handle stays unset and the next query attempts again.
C10_LazyConnection ==
    /\ []ConnectsOnlyWithoutHandle
    /\ [][/\ (neodriver # "None" => neodriver' = neodriver)
          /\ (pc = "execute" /\ dblog' # <<>>) =>
                 /\ dblog'[1].held_before = neodriver
                 /\ neodriver' = dblog'[Len(dblog')].held_after]_vars

\* a failed attempt, then a query that connects, then a query that reuses
\* the handle
C10_Witness ==
    /\ pc = "evaluate"
    /\ Len(dblog) = 3
    /\ dblog[1].attempted /\ dblog[1].held_after = "None"
    /\ dblog[2].attempted /\ dblog[2].held_after = "driver"
    /\ ~dblog[3].attempted /\ dblog[3].held_before = "driver"
    /\ neodriver = "driver"

\* C11: _query_graph_database never propagates an exception: when the
\* connection cannot be established or the driver raises on the query, it
\* returns the empty list for that query.
C11_QueryNeverRaises ==
    \A i \in 1..Len(dblog) :
        /\ dblog[i].returned.kind # "exception"
        /\ (dblog[i].held_after = "None" \/ dblog[i].driver_raised)
               => dblog[i].returned = [kind |-> "list", data |-> <<>>]

\* one query without a connection and one on which the driver raised
C11_Witness ==
    /\ pc = "evaluate"
    /\ Len(dblog) = 2
    /\ dblog[1].held_after = "None" /\ dblog[1].returned.kind = "list"
    /\ dblog[2].held_after = "driver" /\ dblog[2].driver_raised
    /\ dblog[2].returned.kind = "list"

-----------------------------------------------------------------------------
(* BioCypherPrompt.__init__ (biochatter/prompts.py) *)

\* the top level keys of a schema configuration, in file order
SchemaKeys == <<"gene", "Gene", "protein protein Interaction", "gene disease association">>

\* str.lower() on the keys
KeyLower(key) ==
    CASE key = "gene" -> "gene"
      [] key = "Gene" -> "gene"
      [] key = "protein protein Interaction" -> "protein protein interaction"
      [] key = "gene disease association" -> "gene disease association"

\* biocypher's sentencecase_to_pascalcase on the keys
SentencecaseToPascalcase(key) ==
    CASE key = "gene" -> "Gene"
      [] key = "Gene" -> "Gene"
      [] key = "protein protein Interaction" -> "ProteinProteinInteraction"
      [] key = "gene disease association" -> "GeneDiseaseAssociation"

\* "interaction" in text, "association" in text
ContainsInteraction(text) == text \in {"protein protein interaction"}
ContainsAssociation(text) == text \in {"gene disease association"}

\* a field a record of the schema does not hold
Absent == "<absent>"

\* the records of a schema configuration
SchemaValues ==
    [represented_as : {"node", "edge", "property", Absent}, label_as_edge : {Absent, "LABEL"}]

Schemas == [{SchemaKeys[i] : i \in 1..Len(SchemaKeys)} -> SchemaValues]

\* a mutant: the name is tested as written, not lowercased
NameIndicatesRelationship_caseSensitive(key) ==
    ContainsInteraction(key) \/ ContainsAssociation(key)

\* lines 34-36
NameIndicatesRelationship(key) ==
    ContainsInteraction(KeyLower(key)) \/ ContainsAssociation(KeyLower(key))

\* lines 32-49, the body of the loop over schema_config.items(); `placed`
\* records each assignment to an index
PlaceEntry(acc, key, value) ==
    LET name == SentencecaseToPascalcase(key)
        name_indicates_relationship == NameIndicatesRelationship(key)
    IN  IF value.represented_as # Absent
        THEN IF value.represented_as = "node" /\ ~name_indicates_relationship
             THEN [acc EXCEPT !.entities = (name :> value) @@ acc.entities,
                              !.placed = Append(acc.placed, [key |-> key, index |-> "entities"])]
             ELSE IF value.represented_as = "node" /\ name_indicates_relationship
                  THEN [acc EXCEPT !.relationships = (name :> value) @@ acc.relationships,
                                   !.placed = Append(acc.placed, [key |-> key, index |-> "relationships"])]
                  ELSE IF value.represented_as = "edge"
                       THEN [acc EXCEPT !.relationships = (name :> value) @@ acc.relationships,
                                        !.placed = Append(acc.placed, [key |-> key, index |-> "relationships"])]
                       ELSE acc
        ELSE acc

RECURSIVE PlaceEntries(_, _, _)
PlaceEntries(acc, config, i) ==
    IF i > Len(SchemaKeys) THEN acc
    ELSE PlaceEntries(PlaceEntry(acc, SchemaKeys[i], config[SchemaKeys[i]]), config, i + 1)

\* the value of selected_properties before select_properties has set it
Unset == "unset"

\* BioCypherPrompt.__init__(schema_config_path): the attributes of the new builder
BioCypherPrompt(config) ==
    LET idx == PlaceEntries([entities |-> <<>>, relationships |-> <<>>, placed |-> <<>>], config, 1)
    IN  [built |-> TRUE,
         entities |-> idx.entities,
         relationships |-> idx.relationships,
         placed |-> idx.placed,
         question |-> "",
         selected_entities |-> <<>>,
         selected_relationships |-> <<>>,
         selected_relationship_labels |-> <<>>,
         selected_properties |-> Unset]

NoCall == [n |-> 0, entity_calls |-> 0, op |-> "none"]

\* the agent's variables in a run of the prompt builder
NoAgent ==
    /\ state = <<>>
    /\ max_steps = 0
    /\ neodriver = "None"
    /\ llm_calls = 0
    /\ results = <<>>
    /\ dblog = <<>>
    /\ logged = <<>>
    /\ num_out = NoOutcome
    /\ final_result = "unset"

\* a schema configuration has been read
InitSchema ==
    /\ schema \in Schemas
    /\ builder = [built |-> FALSE]
    /\ last_call = NoCall
    /\ pc = "new"
    /\ NoAgent

\* BioCypherPrompt(schema_config_path)
Construct ==
    /\ pc = "new"
    /\ builder' = BioCypherPrompt(schema)
    /\ pc' = "built"
    /\ UNCHANGED <<schema, last_call>>
    /\ UNCHANGED agentVars

NextSchema == Construct

SpecSchema == InitSchema /\ [][NextSchema]_vars

\* the indexes the constructor assigned the entry of a key to
PlacedIn(key) == {builder.placed[i].index : i \in {j \in 1..Len(builder.placed) : builder.placed[j].key = key}}
TimesPlaced(key) == Cardinality({j \in 1..Len(builder.placed) : builder.placed[j].key = key})

\* the name holds "interaction" or "association", whatever the case
RelationshipName(key) ==
    key \in {"protein protein Interaction", "gene disease association"}

\* no other key of the schema converts to the same index name
UniqueName(key) ==
    \A i \in 1..Len(SchemaKeys) :
        SentencecaseToPascalcase(SchemaKeys[i]) = SentencecaseToPascalcase(key) => SchemaKeys[i] = key

\* C16: the constructor places every schema entry in at most one index: in
\* entities exactly when it is represented as 'node' and its name holds
\* neither 'interaction' nor 'association' (case-insensitive); in
\* relationships exactly when it is represented as 'edge', or as 'node' with
\* such a name; an entry without 'represented_as' or of another kind in neither.
C16_Classification ==
    pc = "built" =>
        \A i \in 1..Len(SchemaKeys) :
            LET key == SchemaKeys[i]
                rep == schema[key].represented_as
                name == SentencecaseToPascalcase(key)
                entity == rep = "node" /\ ~RelationshipName(key)
                relationship == rep = "edge" \/ (rep = "node" /\ RelationshipName(key))
            IN  /\ TimesPlaced(key) <= 1
                /\ ("entities" \in PlacedIn(key)) <=> entity
                /\ ("relationships" \in PlacedIn(key)) <=> relationship
                /\ entity => name \in DOMAIN builder.entities
                /\ relationship => name \in DOMAIN builder.relationships
                /\ UniqueName(key) =>
                       /\ (name \in DOMAIN builder.entities) <=> entity
                       /\ (name \in DOMAIN builder.relationships) <=> relationship
                       /\ entity => builder.entities[name] = schema[key]
                       /\ relationship => builder.relationships[name] = schema[key]

\* a plain node, a node named as an interaction, an edge and an entry of
\* another kind
C16_Witness ==
    /\ pc = "built"
    /\ schema["gene"].represented_as = "node"
    /\ schema["Gene"].represented_as = Absent
    /\ schema["protein protein Interaction"].represented_as = "node"
    /\ schema["gene disease association"].represented_as = "edge"
    /\ DOMAIN builder.entities = {"Gene"}
    /\ DOMAIN builder.relationships = {"ProteinProteinInteraction", "GeneDiseaseAssociation"}

-----------------------------------------------------------------------------
(* BioCypherPrompt.select_entities and select_properties *)

\* a reply of the LLM to select_entities, given by the pieces between its
\* commas; the empty string has the one piece ""
EmptyReply == <<"">>
EntityReplies ==
    {EmptyReply, <<"Gene">>, <<"Unknown">>, <<"Gene", "ProteinProteinInteraction">>,
     <<"Gene", " GeneDiseaseAssociation">>, <<"GeneDiseaseAssociation", "Unknown">>}

\* msg.split(",") if msg else []
SplitReply(msg) == IF msg # EmptyReply THEN msg ELSE <<>>

\* self.relationships[name].get("label_as_edge", name)
LabelOf(b, name) ==
    IF b.relationships[name].label_as_edge # Absent
    THEN b.relationships[name].label_as_edge
    ELSE name

\* a mutant: the names of the reply are not looked up in the schema
SelectEntities_noLookup(b, question, msg) ==
    LET result == SplitReply(msg)
    IN  [builder |-> [b EXCEPT !.question = question,
                               !.selected_entities = b.selected_entities \o result],
         returned |-> result # <<>>]

\* BioCypherPrompt.select_entities(question), the LLM replying msg
SelectEntities(b, question, msg) ==
    LET result == SplitReply(msg)
        isEntity(x) == x \in DOMAIN b.entities
        isRelationship(x) == x \notin DOMAIN b.entities /\ x \in DOMAIN b.relationships
        rels == SelectSeq(result, isRelationship)
    IN  [builder |-> [b EXCEPT !.question = question,
                               !.selected_entities = b.selected_entities \o SelectSeq(result, isEntity),
                               !.selected_relationships = b.selected_relationships \o rels,
                               !.selected_relationship_labels =
                                   b.selected_relationship_labels
                                       \o [i \in 1..Len(rels) |-> LabelOf(b, rels[i])]],
         returned |-> result # <<>>]

\* an argument left at its default None, and a list passed as argument
NoneArg == "<None>"
NoList == [none |-> TRUE, items |-> <<>>]
ListArg(items) == [none |-> FALSE, items |-> items]

\* the replies of the LLM to select_properties: nothing, a JSON object, text
\* that is no JSON
PropertyReplies == {"", "{\"Gene\": [\"name\"]}", "I cannot tell"}

\* json.loads(msg) if msg else {}
LoadProperties(msg) ==
    CASE msg = "" -> [raised |-> FALSE, value |-> "{}"]
      [] msg = "{\"Gene\": [\"name\"]}" -> [raised |-> FALSE, value |-> msg]
      [] OTHER -> [raised |-> TRUE, value |-> Unset]

\* lines 148-205 of select_properties, once a question is there
SelectPropertiesWithQuestion(b, entities, relationships, msg, checkSelection) ==
    LET ents == IF entities.none \/ entities.items = <<>> THEN b.selected_entities
                ELSE entities.items
        rels == IF relationships.none \/ relationships.items = <<>> THEN b.selected_relationships
                ELSE relationships.items
        loaded == LoadProperties(msg)
    IN  IF checkSelection /\ ents = <<>> /\ rels = <<>>
        THEN [builder |-> b, returned |-> FALSE, raised |-> "ValueError", llm_queries |-> 0]
        ELSE IF \/ \E i \in 1..Len(ents) : ents[i] \notin DOMAIN b.entities
                \/ \E i \in 1..Len(rels) : rels[i] \notin DOMAIN b.relationships
             THEN [builder |-> b, returned |-> FALSE, raised |-> "KeyError", llm_queries |-> 0]
             ELSE IF loaded.raised
                  THEN [builder |-> b, returned |-> FALSE, raised |-> "JSONDecodeError",
                        llm_queries |-> 1]
                  ELSE [builder |-> [b EXCEPT !.selected_properties = loaded.value],
                        returned |-> loaded.value # "{}", raised |-> "none", llm_queries |-> 1]

\* a mutant: the check for a question is missing
SelectProperties_noQuestionCheck(b, question, entities, relationships, msg) ==
    SelectPropertiesWithQuestion(b, entities, relationships, msg, TRUE)

\* a mutant: the check for entities or relationships is missing
SelectProperties_noSelectionCheck(b, question, entities, relationships, msg) ==
    LET q == IF question = NoneArg \/ question = "" THEN b.question ELSE question
    IN  IF q = ""
        THEN [builder |-> b, returned |-> FALSE, raised |-> "ValueError", llm_queries |-> 0]
        ELSE SelectPropertiesWithQuestion(b, entities, relationships, msg, FALSE)

\* BioCypherPrompt.select_properties(question, entities, relationships), the
\* LLM replying msg when it is asked
SelectProperties(b, question, entities, relationships, msg) ==
    LET q == IF question = NoneArg \/ question = "" THEN b.question ELSE question
    IN  IF q = ""
        THEN [builder |-> b, returned |-> FALSE, raised |-> "ValueError", llm_queries |-> 0]
        ELSE SelectPropertiesWithQuestion(b, entities, relationships, msg, TRUE)

\* the schema configurations the builders are made of
PromptSchemas ==
    {[k \in DOMAIN s |->
         CASE k = "gene" -> [represented_as |-> "node", label_as_edge |-> Absent]
           [] k = "protein protein Interaction" -> [represented_as |-> "node", label_as_edge |-> Absent]
           [] k = "gene disease association" -> [represented_as |-> "edge", label_as_edge |-> "LABEL"]
           [] OTHER -> [represented_as |-> Absent, label_as_edge |-> Absent]] : s \in Schemas}
    \cup
    {[k \in DOMAIN s |->
         CASE k = "gene" -> [represented_as |-> "property", label_as_edge |-> Absent]
           [] k = "protein protein Interaction" -> [represented_as |-> "edge", label_as_edge |-> Absent]
           [] OTHER -> [represented_as |-> Absent, label_as_edge |-> Absent]] : s \in Schemas}

InitPrompt ==
    /\ schema \in PromptSchemas
    /\ builder = BioCypherPrompt(schema)
    /\ last_call = NoCall
    /\ pc = "built"
    /\ NoAgent

\* one call of select_entities
CallSelectEntities ==
    /\ last_call.n < MaxCalls
    /\ \E question \in {"", "q1"}, msg \in EntityReplies :
          LET r == SelectEntities(builder, question, msg)
          IN  /\ builder' = r.builder
              /\ last_call' = [n |-> last_call.n + 1,
                               entity_calls |-> last_call.entity_calls + 1,
                               op |-> "select_entities",
                               question |-> question,
                               reply |-> msg,
                               entities_before |-> builder.selected_entities,
                               relationships_before |-> builder.selected_relationships,
                               returned |-> r.returned,
                               raised |-> "none",
                               llm_queries |-> 1]
    /\ UNCHANGED <<schema, pc>>
    /\ UNCHANGED agentVars

\* one call of select_properties
CallSelectProperties ==
    /\ last_call.n < MaxCalls
    /\ \E question \in {NoneArg, "q1"},
          entities \in {NoList, ListArg(<<>>), ListArg(<<"Gene">>)},
          relationships \in {NoList, ListArg(<<"ProteinProteinInteraction">>)},
          msg \in PropertyReplies :
          LET r == SelectProperties(builder, question, entities, relationships, msg)
          IN  /\ builder' = r.builder
              /\ last_call' = [n |-> last_call.n + 1,
                               entity_calls |-> last_call.entity_calls,
                               op |-> "select_properties",
                               question |-> question,
                               entities |-> entities,
                               relationships |-> relationships,
                               json_reply |-> IF r.llm_queries > 0 THEN msg ELSE "not asked",
                               properties_before |-> builder.selected_properties,
                               returned |-> r.returned,
                               raised |-> r.raised,
                               llm_queries |-> r.llm_queries]
    /\ UNCHANGED <<schema, pc>>
    /\ UNCHANGED agentVars

NextPrompt == CallSelectEntities \/ CallSelectProperties

SpecPrompt == InitPrompt /\ [][NextPrompt]_vars

-----------------------------------------------------------------------------
(* The claims about the prompt builder *)

\* the elements of a list
Elements(list) == {list[i] : i \in 1..Len(list)}

\* C12: after any sequence of select_entities calls, every element of
\* selected_entities is a name of the entity index and every element of
\* selected_relationships a name of the relationship index; a replied name
\* that is in neither index is added to neither list.
C12_SelectionWithinSchema ==
    builder.built =>
        /\ Elements(builder.selected_entities) \subseteq DOMAIN builder.entities
        /\ Elements(builder.selected_relationships) \subseteq DOMAIN builder.relationships
        /\ last_call.op = "select_entities" =>
               \A name \in Elements(last_call.reply) :
                   name \notin (DOMAIN builder.entities \cup DOMAIN builder.relationships)
                       => name \notin (Elements(builder.selected_entities)
                                           \cup Elements(builder.selected_relationships))

\* two calls; the last reply names a relationship and a name outside the schema
C12_Witness ==
    /\ last_call.op = "select_entities"
    /\ last_call.entity_calls = 2
    /\ last_call.reply = <<"GeneDiseaseAssociation", "Unknown">>
    /\ builder.selected_entities = <<"Gene">>
    /\ builder.selected_relationships = <<"ProteinProteinInteraction", "GeneDiseaseAssociation">>

\* C13: select_properties without a question argument, on a builder on which
\* select_entities was never called, raises ValueError before any LLM call and
\* without setting selected_properties.
C13_NoQuestionRaises ==
    (/\ last_call.op = "select_properties"
     /\ last_call.question = NoneArg
     /\ last_call.entity_calls = 0)
        => /\ last_call.raised = "ValueError"
           /\ last_call.llm_queries = 0
           /\ builder.selected_properties = last_call.properties_before

\* entities are passed, and an earlier call with a question had set the
\* properties
C13_Witness ==
    /\ last_call.op = "select_properties"
    /\ last_call.question = NoneArg
    /\ last_call.entity_calls = 0
    /\ last_call.entities = ListArg(<<"Gene">>)
    /\ last_call.properties_before # Unset
    /\ last_call.raised = "ValueError"

\* C14: select_properties with a question available raises ValueError
\* whenever no entities and no relationships are available: none passed and
\* none held in selected_entities or selected_relationships.
C14_NoSelectionRaises ==
    (/\ last_call.op = "select_properties"
     /\ (last_call.question # NoneArg \/ builder.question # "")
     /\ last_call.entities.items = <<>>
     /\ last_call.relationships.items = <<>>
     /\ builder.selected_entities = <<>>
     /\ builder.selected_relationships = <<>>)
        => /\ last_call.raised = "ValueError"
           /\ last_call.llm_queries = 0

\* select_entities was called with a question and its reply matched no name
C14_Witness ==
    /\ last_call.op = "select_properties"
    /\ last_call.entity_calls = 1
    /\ last_call.question = NoneArg
    /\ builder.question = "q1"
    /\ last_call.entities = ListArg(<<>>)
    /\ builder.selected_entities = <<>>
    /\ builder.selected_relationships = <<>>
    /\ last_call.raised = "ValueError"

\* C15 as stated: select_entities returns True exactly when the call added
\* at least one name to the selection lists.
C15_Original ==
    last_call.op = "select_entities" =>
        (last_call.returned <=>
            \/ Len(builder.selected_entities) > Len(last_call.entities_before)
            \/ Len(builder.selected_relationships) > Len(last_call.relationships_before))

\* the names of a reply that are in an index
RepliedEntities(msg) ==
    LET isEntity(x) == x \in DOMAIN builder.entities
    IN  SelectSeq(SplitReply(msg), isEntity)
RepliedRelationships(msg) ==
    LET isRelationship(x) == x \notin DOMAIN builder.entities /\ x \in DOMAIN builder.relationships
    IN  SelectSeq(SplitReply(msg), isRelationship)

\* C17 as stated: after select_entities(question) returns, the selection
\* lists hold exactly the schema names of the reply for that question,
\* whatever calls were made before.
C17_Original ==
    last_call.op = "select_entities" =>
        /\ builder.selected_entities = RepliedEntities(last_call.reply)
        /\ builder.selected_relationships = RepliedRelationships(last_call.reply)

====
